---- MODULE Spec2Model ----
(***************************************************************************)
(* A model of the C-like-to-Python transpiler of src/main.py: the          *)
(* SymbolTable (a stack of scope mappings), the SemanticAnalyzer (a        *)
(* depth-first visitor over the AST), the code generator `generate`, and   *)
(* the driver `test_code` that sequences parse, analysis, the AST dump,    *)
(* generation and execution.                                               *)
(*                                                                         *)
(* Three specifications share the module:                                  *)
(*   SpecST   a SymbolTable object under arbitrary call sequences;         *)
(*   Spec     the driver running compilations, the analyzer's recursion    *)
(*            unfolded on an agenda (the visitor's call stack);            *)
(*   SpecGen  `generate` applied to bounded FunctionDef nodes.             *)
(***************************************************************************)
EXTENDS Integers, Sequences, FiniteSets, TLC

VARIABLES
    scopes,     \* SymbolTable.scopes: a sequence of mappings, scopes[1] the global one
    call,       \* SpecST: the last SymbolTable method called, its argument, its return
                \*         value and the stack's length before the call
    pc,         \* Spec: the driver's position in test_code
    ast,        \* Spec: the Program node parser.parse returned (function headers)
    errors,     \* Spec: SemanticAnalyzer.errors
    agenda,     \* Spec: the pending visits and scope exits of the analyzer's recursion
    last,       \* Spec: the visit just performed (node type, name, what it found)
    declared,   \* Spec: per open scope, the names the program has declared in it
    hidden,     \* Spec: names declared only in an if-branch or while-body now closed
    budget,     \* Spec: the nodes the tree under analysis may still hold
    produced,   \* Spec: what the current test_code call has produced so far
    node,       \* SpecGen: the FunctionDef node handed to generate
    code        \* SpecGen: the text generate returned

vars == <<scopes, call, pc, ast, errors, agenda, last, declared, hidden, budget, produced,
          node, code>>

\* what the driver and the analyzer leave alone
others == <<call, node, code>>

\* what the SymbolTable harness leaves alone
rest == <<pc, ast, errors, agenda, last, declared, hidden, budget, produced, node, code>>

----------------------------------------------------------------------------
(* Bounds of the model *)

\* the deepest scope stack the SymbolTable harness builds
MaxScopes == 3

\* identifiers of the source programs (functions, parameters and variables share them)
Names == {"a", "b"}

\* Python's None, as a value comparable with the symbol records
None == [type |-> "None"]

\* type_specifier : TYPE_INT | TYPE_VOID
TypeSpecifiers == {"int", "void"}

\* the symbol_info values the analyzer stores: a variable's or a function's
VarSymbol(dataType) == [type |-> dataType]

\* 'params' holds a reference to the FunctionDef's own params list: params is the
\* position in Program.body of the FunctionDef whose list it is
FunctionSymbol(returnType, params) ==
    [type |-> "function", returnType |-> returnType, params |-> params]

----------------------------------------------------------------------------
(* SymbolTable *)

\* a dict, as a function whose domain is its key set
EmptyDict == [k \in {} |-> None]

DictSet(d, k, v) == [x \in (DOMAIN d) \cup {k} |-> IF x = k THEN v ELSE d[x]]

\* a table whose mapping every instance shares, a name of an earlier program in it
SymbolTable_shared == <<[n \in {"a"} |-> VarSymbol("int")]>>

\* SymbolTable.__init__
SymbolTable_init == <<EmptyDict>>

enter_scope(s) == Append(s, EmptyDict)

\* exit_scope without its guard: pops the global mapping too
exit_scope_unguarded(s) == IF Len(s) > 0 THEN SubSeq(s, 1, Len(s) - 1) ELSE s

\* exit_scope without its pop
exit_scope_keeps(s) == s

\* if len(self.scopes) > 1: self.scopes.pop()
exit_scope(s) == IF Len(s) > 1 THEN SubSeq(s, 1, Len(s) - 1) ELSE s

add(s, name, symbol_info) == [s EXCEPT ![Len(s)] = DictSet(s[Len(s)], name, symbol_info)]

\* for scope in reversed(self.scopes): the scan from index i down to 1
RECURSIVE lookup_from(_, _, _)
lookup_from(s, i, name) ==
    IF i = 0 THEN None
    ELSE IF name \in DOMAIN s[i] THEN s[i][name]
    ELSE lookup_from(s, i - 1, name)

\* the scan without reversed(): outermost mapping first
RECURSIVE lookup_outermost_from(_, _, _)
lookup_outermost_from(s, i, name) ==
    IF i > Len(s) THEN None
    ELSE IF name \in DOMAIN s[i] THEN s[i][name]
    ELSE lookup_outermost_from(s, i + 1, name)

lookup_outermost_first(s, name) == lookup_outermost_from(s, 1, name)

lookup(s, name) == lookup_from(s, Len(s), name)

\* `if not x` / `if x` on a lookup result or an optional child: None is falsy, a
\* symbol or node dict (never empty: each carries 'type') is truthy
Truthy(x) == x # None

----------------------------------------------------------------------------
(* SpecST: one SymbolTable object, its four methods called in any order *)

\* the symbol_info values the harness passes to add
SymbolInfos == {VarSymbol("int"), FunctionSymbol("int", 1)}

NoCall == [op |-> "__init__", name |-> "", ret |-> None, before |-> 0]

\* the variables of the other specifications, at rest
DriverIdle ==
    /\ pc = "idle"
    /\ ast = None
    /\ errors = <<>>
    /\ agenda = <<>>
    /\ last = None
    /\ declared = <<>>
    /\ hidden = {}
    /\ budget = 0
    /\ produced = {}

GenIdle ==
    /\ node = None
    /\ code = <<>>

InitST ==
    /\ scopes = SymbolTable_init
    /\ call = NoCall
    /\ DriverIdle
    /\ GenIdle

ST_enter_scope ==
    /\ Len(scopes) < MaxScopes
    /\ scopes' = enter_scope(scopes)
    /\ call' = [op |-> "enter_scope", name |-> "", ret |-> None, before |-> Len(scopes)]
    /\ UNCHANGED rest

ST_exit_scope ==
    /\ scopes' = exit_scope(scopes)
    /\ call' = [op |-> "exit_scope", name |-> "", ret |-> None, before |-> Len(scopes)]
    /\ UNCHANGED rest

ST_add ==
    \E name \in Names, symbol_info \in SymbolInfos :
        /\ scopes' = add(scopes, name, symbol_info)
        /\ call' = [op |-> "add", name |-> name, ret |-> None, before |-> Len(scopes)]
        /\ UNCHANGED rest

ST_lookup ==
    \E name \in Names :
        /\ call' = [op |-> "lookup", name |-> name, ret |-> lookup(scopes, name),
                    before |-> Len(scopes)]
        /\ UNCHANGED scopes
        /\ UNCHANGED rest

NextST == ST_enter_scope \/ ST_exit_scope \/ ST_add \/ ST_lookup

SpecST == InitST /\ [][NextST]_vars

----------------------------------------------------------------------------
(* The AST.  parser.parse returns a Program whose body lists FunctionDef nodes *)
(* (p_program, p_function); the rest of the tree is drawn node by node as the  *)
(* visitor reaches it: an agenda item of type "Statement" or "Expression"      *)
(* stands for a child the visitor has not inspected yet, and the visiting      *)
(* action draws its node type and fields.  `budget` counts the nodes the tree  *)
(* may still hold.                                                             *)

\* the most nodes of a Program: FunctionDef, Param, statement and expression
\* nodes, an empty statement counted as one
MaxNodes == 6

\* the most errors one analysis records in the model
MaxErrors == 2

SeqsUpTo(S, n) == UNION {[1..k -> S] : k \in 0..n}

\* p_param
Params == {[type |-> "Param", dataType |-> t, name |-> n] : t \in {"int"}, n \in Names}

\* p_function: the node's name and return type; its params and body are drawn
\* when visit_FunctionDef reads them
FunctionDefs ==
    {[type |-> "FunctionDef", returnType |-> t, name |-> n] : t \in {"int"}, n \in Names}

\* p_program: function_list holds one function or more
Programs ==
    {[type |-> "Program", body |-> fs] : fs \in SeqsUpTo(FunctionDefs, MaxNodes) \ {<<>>}}

Statement == [type |-> "Statement"]

Expression == [type |-> "Expression"]

\* k children of a node, each still to be inspected
Children(k, item) == [i \in 1..k |-> item]

\* the points inside visit_FunctionDef / visit_If / visit_While where the visitor
\* returns from a child and calls enter_scope or exit_scope
EnterScope(of) == [type |-> "enter_scope", of |-> of]

ExitScope(of) == [type |-> "exit_scope", of |-> of]

----------------------------------------------------------------------------
(* SemanticAnalyzer *)

AlreadyDeclared(name) == [msg |-> "Variable already declared in this scope", name |-> name]

AssignUndeclared(name) == [msg |-> "Assignment to undeclared variable", name |-> name]

UseUndeclared(name) == [msg |-> "Use of undeclared variable", name |-> name]

CallUndeclared(name) == [msg |-> "Call to undeclared or non-function", name |-> name]

\* `last` after a visit that neither reads nor writes the symbol table
NoLookup == [type |-> "visit", name |-> ""]

\* error without its append: the message is printed only
error_print_only(errs, msg) == errs

\* SemanticAnalyzer.error: self.errors.append(msg)
error(errs, msg) == Append(errs, msg)

\* a visit that records an error is taken only while the list is below the bound
Room(records) == records => Len(errors) < MaxErrors

\* the node under visit has k children: they are drawn from the budget
Draw(k) == budget >= k /\ budget' = budget - k

AtStatement == pc = "analyze" /\ agenda # <<>> /\ Head(agenda).type = "Statement"

\* a statement may be an expression statement (p_expression_statement_expr:
\* p[0] = p[1])
AtExpression ==
    pc = "analyze" /\ agenda # <<>> /\ Head(agenda).type \in {"Statement", "Expression"}

\* `declared` and `hidden` follow the program, not the symbol table: a scope opens
\* at a function, an if-branch and a while-body and closes at its end, and a
\* declaration belongs to the innermost open scope
Declare(names) == [declared EXCEPT ![Len(declared)] = @ \cup names]

Open(names) == Append(declared, names)

Close == SubSeq(declared, 1, Len(declared) - 1)

\* the names of the innermost open scope that no enclosing scope declares
OnlyInnermost ==
    {n \in declared[Len(declared)] : \A i \in 1..(Len(declared) - 1) : n \notin declared[i]}

NamesOf(nodes) == {nodes[i].name : i \in 1..Len(nodes)}

\* visit_Program, first loop: every FunctionDef of the body into the current scope
RECURSIVE RegisterFrom(_, _, _)
RegisterFrom(s, body, i) ==
    IF i > Len(body) THEN s
    ELSE RegisterFrom(add(s, body[i].name, FunctionSymbol(body[i].returnType, i)),
                      body, i + 1)

\* the first loop leaving after its first function
RegisterFirstOnly(s, body) == RegisterFrom(s, SubSeq(body, 1, 1), 1)

RegisterFunctions(s, body) == RegisterFrom(s, body, 1)

\* visit_FunctionDef, first loop: every parameter into the current scope
RECURSIVE AddParams(_, _, _)
AddParams(s, params, i) ==
    IF i > Len(params) THEN s
    ELSE AddParams(add(s, params[i].name, VarSymbol(params[i].dataType)), params, i + 1)

visit_Program ==
    /\ pc = "analyze" /\ agenda # <<>> /\ Head(agenda).type = "Program"
    /\ scopes' = RegisterFunctions(scopes, ast.body)
    /\ agenda' = ast.body \o Tail(agenda)
    /\ declared' = Declare(NamesOf(ast.body))
    /\ hidden' = hidden \ NamesOf(ast.body)
    /\ last' = [type |-> "Program", name |-> ""]
    /\ UNCHANGED <<pc, ast, errors, budget, produced, others>>

visit_FunctionDef ==
    /\ pc = "analyze" /\ agenda # <<>> /\ Head(agenda).type = "FunctionDef"
    /\ \E params \in SeqsUpTo(Params, budget), k \in 0..budget :
        /\ Draw(Len(params) + k)
        /\ scopes' = AddParams(enter_scope(scopes), params, 1)
        /\ agenda' = Children(k, Statement) \o <<ExitScope("FunctionDef")>> \o Tail(agenda)
        /\ declared' = Open(NamesOf(params))
        /\ hidden' = hidden \ NamesOf(params)
        /\ last' = [type |-> "FunctionDef", name |-> Head(agenda).name, params |-> params]
    /\ UNCHANGED <<pc, ast, errors, produced, others>>

\* the test made with lookup: through the whole scope chain
DeclaredInChain(s, name) == Truthy(lookup(s, name))

\* visit_VarDecl's test: node['name'] in self.symbol_table.scopes[-1]
DeclaredInCurrent(s, name) == name \in DOMAIN s[Len(s)]

visit_VarDecl ==
    /\ AtStatement
    /\ \E name \in Names, dataType \in {"int"}, hasInit \in BOOLEAN :
        LET dup == DeclaredInCurrent(scopes, name) IN
        /\ Draw(IF hasInit THEN 1 ELSE 0)
        /\ Room(dup)
        /\ errors' = IF dup THEN error(errors, AlreadyDeclared(name)) ELSE errors
        /\ scopes' = add(scopes, name, VarSymbol(dataType))
        /\ agenda' = (IF hasInit THEN <<Expression>> ELSE <<>>) \o Tail(agenda)
        /\ declared' = Declare({name})
        /\ hidden' = hidden \ {name}
        /\ last' = [type |-> "VarDecl", name |-> name]
    /\ UNCHANGED <<pc, ast, produced, others>>

visit_Assignment ==
    /\ AtExpression
    /\ Draw(1)
    /\ \E target \in Names :
        LET undeclared == ~Truthy(lookup(scopes, target)) IN
        /\ Room(undeclared)
        /\ errors' = IF undeclared THEN error(errors, AssignUndeclared(target)) ELSE errors
        /\ agenda' = <<Expression>> \o Tail(agenda)
        /\ last' = [type |-> "Assignment", name |-> target]
    /\ UNCHANGED <<scopes, pc, ast, declared, hidden, produced, others>>

visit_Identifier ==
    /\ AtExpression
    /\ \E name \in Names :
        LET undeclared == ~Truthy(lookup(scopes, name)) IN
        /\ Room(undeclared)
        /\ errors' = IF undeclared THEN error(errors, UseUndeclared(name)) ELSE errors
        /\ agenda' = Tail(agenda)
        /\ last' = [type |-> "Identifier", name |-> name]
    /\ UNCHANGED <<scopes, pc, ast, declared, hidden, budget, produced, others>>

\* visit_Call's test: not symbol or symbol.get('type') != 'function'
NotCallable(symbol) == ~Truthy(symbol) \/ symbol.type # "function"

visit_Call ==
    /\ AtExpression
    /\ \E callee \in Names, k \in 0..budget :
        LET bad == NotCallable(lookup(scopes, callee)) IN
        /\ Draw(k)
        /\ Room(bad)
        /\ errors' = IF bad THEN error(errors, CallUndeclared(callee)) ELSE errors
        /\ agenda' = Children(k, Expression) \o Tail(agenda)
        /\ last' = [type |-> "Call", name |-> callee]
    /\ UNCHANGED <<scopes, pc, ast, declared, hidden, produced, others>>

visit_BinaryOp ==
    /\ AtExpression
    /\ Draw(2)
    /\ agenda' = <<Expression, Expression>> \o Tail(agenda)
    /\ last' = NoLookup
    /\ UNCHANGED <<scopes, pc, ast, errors, declared, hidden, produced, others>>

visit_Literal ==
    /\ AtExpression
    /\ agenda' = Tail(agenda)
    /\ last' = NoLookup
    /\ UNCHANGED <<scopes, pc, ast, errors, declared, hidden, budget, produced, others>>

\* what visit_If leaves to do once it has called visit(node['test'])
\* visit_If leaving the scope of its alternate open
IfRest_alternate_unpopped(hasAlt) ==
    <<EnterScope("If.consequent"), Statement, ExitScope("If.consequent")>>
        \o (IF hasAlt THEN <<EnterScope("If.alternate"), Statement>> ELSE <<>>)

\* visit_If after its test: a scope around the consequent and, if there is an
\* alternate, another around it
IfRest(hasAlt) ==
    <<EnterScope("If.consequent"), Statement, ExitScope("If.consequent")>>
        \o (IF hasAlt
            THEN <<EnterScope("If.alternate"), Statement, ExitScope("If.alternate")>>
            ELSE <<>>)

visit_If ==
    /\ AtStatement
    /\ \E hasAlt \in BOOLEAN :
        /\ Draw(IF hasAlt THEN 3 ELSE 2)
        /\ agenda' = <<Expression>> \o IfRest(hasAlt) \o Tail(agenda)
    /\ last' = NoLookup
    /\ UNCHANGED <<scopes, pc, ast, errors, declared, hidden, produced, others>>

visit_While ==
    /\ AtStatement
    /\ Draw(2)
    /\ agenda' = <<Expression, EnterScope("While"), Statement, ExitScope("While")>>
                     \o Tail(agenda)
    /\ last' = NoLookup
    /\ UNCHANGED <<scopes, pc, ast, errors, declared, hidden, produced, others>>

visit_Block ==
    /\ AtStatement
    /\ \E k \in 0..budget :
        /\ Draw(k)
        /\ agenda' = Children(k, Statement) \o Tail(agenda)
    /\ last' = NoLookup
    /\ UNCHANGED <<scopes, pc, ast, errors, declared, hidden, produced, others>>

visit_Return ==
    /\ AtStatement
    /\ \E hasValue \in BOOLEAN :
        /\ Draw(IF hasValue THEN 1 ELSE 0)
        /\ agenda' = (IF hasValue THEN <<Expression>> ELSE <<>>) \o Tail(agenda)
    /\ last' = NoLookup
    /\ UNCHANGED <<scopes, pc, ast, errors, declared, hidden, produced, others>>

visit_Print ==
    /\ AtStatement
    /\ Draw(1)
    /\ agenda' = <<Expression>> \o Tail(agenda)
    /\ last' = NoLookup
    /\ UNCHANGED <<scopes, pc, ast, errors, declared, hidden, produced, others>>

\* visit(None): the empty statement (p_expression_statement_empty)
visit_None ==
    /\ AtStatement
    /\ agenda' = Tail(agenda)
    /\ last' = NoLookup
    /\ UNCHANGED <<scopes, pc, ast, errors, declared, hidden, budget, produced, others>>

\* self.symbol_table.enter_scope() in visit_If and visit_While
EnterScopeStep ==
    /\ pc = "analyze" /\ agenda # <<>> /\ Head(agenda).type = "enter_scope"
    /\ scopes' = enter_scope(scopes)
    /\ agenda' = Tail(agenda)
    /\ declared' = Open({})
    /\ last' = [type |-> "enter_scope", name |-> Head(agenda).of]
    /\ UNCHANGED <<pc, ast, errors, hidden, budget, produced, others>>

\* self.symbol_table.exit_scope() in visit_FunctionDef, visit_If and visit_While
ExitScopeStep ==
    /\ pc = "analyze" /\ agenda # <<>> /\ Head(agenda).type = "exit_scope"
    /\ scopes' = exit_scope(scopes)
    /\ agenda' = Tail(agenda)
    /\ declared' = Close
    /\ hidden' = IF Head(agenda).of = "FunctionDef" THEN hidden
                 ELSE hidden \cup OnlyInnermost
    /\ last' = [type |-> "exit_scope", name |-> Head(agenda).of]
    /\ UNCHANGED <<pc, ast, errors, budget, produced, others>>

Visit ==
    \/ visit_Program \/ visit_FunctionDef \/ visit_VarDecl \/ visit_Assignment
    \/ visit_Identifier \/ visit_Call \/ visit_BinaryOp \/ visit_Literal
    \/ visit_If \/ visit_While \/ visit_Block \/ visit_Return \/ visit_Print
    \/ visit_None \/ EnterScopeStep \/ ExitScopeStep

----------------------------------------------------------------------------
(* The driver: test_code *)

\* a return value that never fails the program
analyze_passes_always(errs) == Len(errs) >= 0

\* SemanticAnalyzer.analyze's return value: len(self.errors) == 0
analyze_result(errs) == Len(errs) = 0

\* parser.parse returns an AST
Parse ==
    /\ pc = "idle"
    /\ \E program \in Programs :
        /\ ast' = program
        /\ budget' = MaxNodes - Len(program.body)
    /\ pc' = "parsed"
    /\ produced' = {}
    /\ last' = [type |-> "parse", name |-> ""]
    /\ UNCHANGED <<scopes, errors, agenda, declared, hidden, others>>

\* p_error: sys.exit(1), caught by test_code's except SystemExit
ParseFails ==
    /\ pc = "idle"
    /\ ast' = None
    /\ pc' = "idle"
    /\ produced' = {}
    /\ last' = [type |-> "SystemExit", name |-> ""]
    /\ UNCHANGED <<scopes, errors, agenda, declared, hidden, budget, others>>

\* the names a table holds, whatever the scope
Held(s) == UNION {DOMAIN s[i] : i \in 1..Len(s)}

\* analyzer = SemanticAnalyzer(); analyzer.analyze(ast) calls self.visit(ast).
\* __init__ builds a SymbolTable and an error list of its own; the analyzer of
\* the test_code call before, a local of that call, is dropped: last records
\* the names its table held and whether it had recorded errors
NewAnalyzer ==
    /\ pc = "parsed"
    /\ scopes' = SymbolTable_init
    /\ errors' = <<>>
    /\ agenda' = <<[type |-> "Program"]>>
    /\ declared' = <<{}>>
    /\ hidden' = {}
    /\ pc' = "analyze"
    /\ last' = [type |-> "SemanticAnalyzer", name |-> "",
                dropped |-> Held(scopes), failed |-> errors # <<>>]
    /\ UNCHANGED <<ast, budget, produced, others>>

\* analyze returns; `if not analyzer.analyze(ast): ... return`
AnalyzeReturns ==
    /\ pc = "analyze" /\ agenda = <<>>
    /\ pc' = IF analyze_result(errors) THEN "write_ast" ELSE "idle"
    /\ last' = [type |-> "analyze", name |-> ""]
    /\ UNCHANGED <<scopes, ast, errors, agenda, declared, hidden, budget, produced, others>>

\* json.dump(ast, f) into ast.json
WriteAst ==
    /\ pc = "write_ast"
    /\ produced' = produced \cup {"ast.json"}
    /\ pc' = "generate"
    /\ last' = [type |-> "json.dump", name |-> ""]
    /\ UNCHANGED <<scopes, ast, errors, agenda, declared, hidden, budget, others>>

\* py_code = generate(ast)
Generate ==
    /\ pc = "generate"
    /\ produced' = produced \cup {"py_code"}
    /\ pc' = "exec"
    /\ last' = [type |-> "generate", name |-> ""]
    /\ UNCHANGED <<scopes, ast, errors, agenda, declared, hidden, budget, others>>

\* generate raises (node['consequent']['type'] on an empty statement), caught by
\* test_code's except Exception
GenerateRaises ==
    /\ pc = "generate"
    /\ pc' = "idle"
    /\ last' = [type |-> "Exception", name |-> ""]
    /\ UNCHANGED <<scopes, ast, errors, agenda, declared, hidden, budget, produced, others>>

\* exec(py_code, ...); test_code returns, whether exec raised or not
Exec ==
    /\ pc = "exec"
    /\ produced' = produced \cup {"executed"}
    /\ pc' = "idle"
    /\ last' = [type |-> "exec", name |-> ""]
    /\ UNCHANGED <<scopes, ast, errors, agenda, declared, hidden, budget, others>>

Init ==
    /\ scopes = SymbolTable_init
    /\ call = NoCall
    /\ DriverIdle
    /\ GenIdle

Next ==
    \/ Parse \/ ParseFails \/ NewAnalyzer \/ Visit \/ AnalyzeReturns
    \/ WriteAst \/ Generate \/ GenerateRaises \/ Exec

Spec == Init /\ [][Next]_vars

\* test_code runs on one thread and analyze is a chain of synchronous calls: a
\* visit that can be made is made, and analyze returns once nothing is pending
SpecLive == Spec /\ WF_vars(Visit) /\ WF_vars(AnalyzeReturns)

----------------------------------------------------------------------------
(* generate: text is a sequence of tokens; a line break, one level of         *)
(* indentation and a space are tokens of their own                            *)

NL == "\n"

IND == "    "

SP == " "

\* the most statements of a function body handed to generate
MaxStmts == 2

\* "    " * indent
Indent(indent) == [i \in 1..indent |-> IND]

\* ", ".join(texts)
RECURSIVE Join(_)
Join(texts) ==
    IF texts = <<>> THEN <<>>
    ELSE IF Len(texts) = 1 THEN texts[1]
    ELSE texts[1] \o <<",", SP>> \o Join(Tail(texts))

Whitespace == {NL, IND, SP}

\* str.strip()
RECURSIVE Strip(_)
Strip(text) ==
    IF text = <<>> THEN text
    ELSE IF Head(text) \in Whitespace THEN Strip(Tail(text))
    ELSE IF text[Len(text)] \in Whitespace THEN Strip(SubSeq(text, 1, Len(text) - 1))
    ELSE text

\* node['consequent']['type'] and node['body']['type'] subscript None when the
\* branch or loop body is the empty statement: generate raises TypeError
RECURSIVE raises(_)
raises(n) ==
    IF n = None THEN FALSE
    ELSE CASE n.type = "Program" -> \E i \in 1..Len(n.body) : raises(n.body[i])
           [] n.type = "FunctionDef" -> \E i \in 1..Len(n.body) : raises(n.body[i])
           [] n.type = "Block" -> \E i \in 1..Len(n.body) : raises(n.body[i])
           [] n.type = "If" ->
                n.consequent = None \/ raises(n.consequent) \/ raises(n.alternate)
           [] n.type = "While" -> n.body = None \/ raises(n.body)
           [] OTHER -> FALSE

RECURSIVE generate(_, _)
RECURSIVE GenerateEach(_, _)

\* for stmt in body: code += generate(stmt, indent)
GenerateEach(body, indent) ==
    IF body = <<>> THEN <<>>
    ELSE generate(Head(body), indent) \o GenerateEach(Tail(body), indent)

\* for func in node['body']: code += generate(func, indent) + "\n"
RECURSIVE GenerateFunctions(_, _)
GenerateFunctions(body, indent) ==
    IF body = <<>> THEN <<>>
    ELSE generate(Head(body), indent) \o <<NL>> \o GenerateFunctions(Tail(body), indent)

\* the branch of an If or the body of a While: a Block one level deeper, any other
\* statement flattened onto one line
Branch(stmt, indent) ==
    IF stmt.type = "Block" THEN generate(stmt, indent + 1)
    ELSE Indent(indent + 1) \o Strip(generate(stmt, 0)) \o <<NL>>

generate(n, indent) ==
    IF n = None THEN <<>>
    ELSE LET ind == Indent(indent) IN
      CASE n.type = "Program" ->
             <<"# Transpiled Python Code", NL, "import sys", NL, NL>>
                 \o GenerateFunctions(n.body, indent) \o <<"main", "(", ")", NL>>
        [] n.type = "FunctionDef" ->
             ind \o <<"def", SP, n.name, "(">>
                 \o Join([i \in 1..Len(n.params) |-> <<n.params[i].name>>])
                 \o <<")", ":", NL>>
                 \o (IF n.body = <<>> THEN ind \o <<IND, "pass", NL>>
                     ELSE GenerateEach(n.body, indent + 1))
        [] n.type = "VarDecl" ->
             ind \o <<n.name, SP, "=", SP>>
                 \o (IF Truthy(n.init) THEN generate(n.init, 0) ELSE <<"0">>) \o <<NL>>
        [] n.type = "Assignment" ->
             ind \o <<n.target, SP, "=", SP>> \o generate(n.value, 0) \o <<NL>>
        [] n.type = "Return" ->
             ind \o <<"return", SP>> \o generate(n.value, 0) \o <<NL>>
        [] n.type = "Print" ->
             ind \o <<"print", "(">> \o generate(n.value, 0) \o <<")", NL>>
        [] n.type = "If" ->
             ind \o <<"if", SP>> \o generate(n.test, 0) \o <<":", NL>>
                 \o Branch(n.consequent, indent)
                 \o (IF Truthy(n.alternate)
                     THEN ind \o <<"else", ":", NL>> \o Branch(n.alternate, indent)
                     ELSE <<>>)
        [] n.type = "While" ->
             ind \o <<"while", SP>> \o generate(n.test, 0) \o <<":", NL>>
                 \o Branch(n.body, indent)
        [] n.type = "Block" -> GenerateEach(n.body, indent)
        [] n.type = "BinaryOp" ->
             <<"(">> \o generate(n.left, 0) \o <<SP, n.op, SP>> \o generate(n.right, 0)
                 \o <<")">>
        [] n.type = "Call" ->
             <<n.callee, "(">>
                 \o Join([i \in 1..Len(n.args) |-> generate(n.args[i], 0)]) \o <<")">>
        [] n.type = "Literal" -> <<ToString(n.value)>>
        [] n.type = "Identifier" -> <<n.name>>
        [] OTHER -> <<>>

----------------------------------------------------------------------------
(* SpecGen: generate applied to a FunctionDef, as the Program branch applies   *)
(* it to each function                                                         *)

Literal(value) == [type |-> "Literal", value |-> value]

Identifier(name) == [type |-> "Identifier", name |-> name]

\* expressions: p_expression_number, _id, _call, _binop, _assign
GenExpressions ==
    {Literal(1), Identifier("a"),
     [type |-> "Call", callee |-> "b", args |-> <<>>],
     [type |-> "Call", callee |-> "b", args |-> <<Identifier("a"), Literal(1)>>],
     [type |-> "BinaryOp", op |-> "+", left |-> Identifier("a"), right |-> Literal(1)],
     [type |-> "Assignment", target |-> "a", value |-> Literal(1)]}

\* statements without a statement inside: the empty statement, expression
\* statements, declarations, return and print
GenSimple ==
    {None} \cup GenExpressions
        \cup {[type |-> "VarDecl", dataType |-> "int", name |-> "a", init |-> e] :
                 e \in {None, Literal(1)}}
        \cup {[type |-> "Return", value |-> e] : e \in {None, Identifier("a")}}
        \cup {[type |-> "Print", value |-> Identifier("a")]}

\* the statements tried as a branch, a loop body or a Block's statement
GenInner ==
    {None, [type |-> "Return", value |-> None],
     [type |-> "Call", callee |-> "b", args |-> <<>>],
     [type |-> "Print", value |-> Identifier("a")]}

GenBlocks == {[type |-> "Block", body |-> b] : b \in SeqsUpTo(GenInner, MaxStmts)}

GenStatements ==
    GenSimple \cup GenBlocks
        \cup {[type |-> "If", test |-> Identifier("a"), consequent |-> c, alternate |-> a] :
                 c \in GenInner \cup {[type |-> "Block", body |-> <<>>]},
                 a \in {None, [type |-> "Return", value |-> None]}}
        \cup {[type |-> "While", test |-> Literal(1), body |-> b] :
                 b \in GenInner \cup {[type |-> "Block", body |-> <<>>]}}

GenFunctionDefs ==
    {[type |-> "FunctionDef", returnType |-> "int", name |-> "main", params |-> ps,
      body |-> b] :
        ps \in {<<>>, <<[type |-> "Param", dataType |-> "int", name |-> "a"],
                       [type |-> "Param", dataType |-> "int", name |-> "b"]>>},
        b \in SeqsUpTo(GenStatements, MaxStmts)}

InitGen ==
    /\ scopes = SymbolTable_init
    /\ call = NoCall
    /\ pc = "generate"
    /\ ast = None
    /\ errors = <<>>
    /\ agenda = <<>>
    /\ last = None
    /\ declared = <<>>
    /\ hidden = {}
    /\ budget = 0
    /\ produced = {}
    /\ node \in GenFunctionDefs
    /\ code = <<>>

generate_returns ==
    /\ pc = "generate"
    /\ ~raises(node)
    /\ code' = generate(node, 0)
    /\ pc' = "returned"
    /\ UNCHANGED <<scopes, call, ast, errors, agenda, last, declared, hidden, budget,
                   produced, node>>

generate_raises ==
    /\ pc = "generate"
    /\ raises(node)
    /\ pc' = "raised"
    /\ UNCHANGED <<scopes, call, ast, errors, agenda, last, declared, hidden, budget,
                   produced, node, code>>

NextGen == generate_returns \/ generate_raises

SpecGen == InitGen /\ [][NextGen]_vars

----------------------------------------------------------------------------
(* Claims about the SymbolTable *)

\* C1: the scope stack never empties: after any sequence of enter_scope,
\* exit_scope, add and lookup calls the stack holds at least one mapping, and an
\* exit_scope called when only the global mapping remains leaves the stack
\* unchanged.
C1_StackNeverEmpties ==
    /\ Len(scopes) >= 1
    /\ [][/\ Len(scopes') >= 1
          /\ (call'.op = "exit_scope" /\ Len(scopes) = 1) => scopes' = scopes]_vars

\* an exit_scope has just been called on a stack holding only the global mapping,
\* which by then held a name
C1_Witness ==
    /\ call.op = "exit_scope"
    /\ call.before = 1
    /\ Len(scopes) = 1
    /\ DOMAIN scopes[1] # {}

\* the mappings of the stack s that hold name
Holding(s, name) == {i \in 1..Len(s) : name \in DOMAIN s[i]}

Innermost(S) == CHOOSE i \in S : \A j \in S : j <= i

\* C10: lookup(name) returns the symbol bound to name in the innermost mapping
\* that contains it, returns None exactly when no mapping on the stack contains
\* the name, and leaves the scope stack unchanged.
C10_LookupInnermost ==
    [][call'.op = "lookup" =>
          /\ scopes' = scopes
          /\ (call'.ret = None) <=> (Holding(scopes, call'.name) = {})
          /\ Holding(scopes, call'.name) # {} =>
                call'.ret = scopes[Innermost(Holding(scopes, call'.name))][call'.name]]_vars

\* a lookup has returned the inner of two different bindings of the name
C10_Witness ==
    /\ call.op = "lookup"
    /\ Len(scopes) >= 2
    /\ call.name \in DOMAIN scopes[1]
    /\ call.name \in DOMAIN scopes[Len(scopes)]
    /\ scopes[1][call.name] # scopes[Len(scopes)][call.name]
    /\ call.ret = scopes[Len(scopes)][call.name]

----------------------------------------------------------------------------
(* Claims about the SemanticAnalyzer and the driver *)

\* the scopes open at this point of the program that declare name
DeclaredAt(name) == {i \in 1..Len(declared) : name \in declared[i]}

\* C2: re-declaring a name within one scope records exactly one
\* duplicate-declaration error for that declaration; declaring a name that only
\* enclosing scopes declare (in a function body, if-branch or while-body nested in
\* them) records no error.
C2_DuplicateInSameScopeOnly ==
    [][last'.type = "VarDecl" =>
          IF last'.name \in declared[Len(declared)]
          THEN errors' = Append(errors, AlreadyDeclared(last'.name))
          ELSE errors' = errors]_vars

\* a declaration has just shadowed, without error, the declaration of the same name
\* in the enclosing scope, after an earlier re-declaration had recorded its error
C2_Witness ==
    /\ pc = "analyze"
    /\ last.type = "VarDecl"
    /\ Len(declared) >= 3
    /\ last.name \in declared[Len(declared) - 1]
    /\ last.name \in DOMAIN scopes[Len(scopes)]
    /\ \E n \in Names : errors = <<AlreadyDeclared(n)>>

UndeclaredMsg(visit) ==
    IF visit.type = "Assignment" THEN AssignUndeclared(visit.name)
    ELSE UseUndeclared(visit.name)

\* C3: each use of a name (Identifier read or Assignment target) that no scope
\* open at that point declares records exactly one undeclared-use error, and
\* every analysis that starts runs to its end (analyze returns).
C3_UndeclaredUseOneError ==
    /\ [][(last'.type \in {"Identifier", "Assignment"} /\ DeclaredAt(last'.name) = {}) =>
              errors' = Append(errors, UndeclaredMsg(last'))]_vars
    /\ (pc = "analyze") ~> (pc # "analyze" /\ last.type = "analyze")

\* an assignment to a name declared nowhere has recorded the only error
C3_Witness ==
    /\ pc = "analyze"
    /\ last.type = "Assignment"
    /\ DeclaredAt(last.name) = {}
    /\ errors = <<AssignUndeclared(last.name)>>

\* every function of the Program is bound to a function symbol in the global mapping
AllRegistered ==
    \A i \in 1..Len(ast.body) :
        /\ ast.body[i].name \in DOMAIN scopes[1]
        /\ scopes[1][ast.body[i].name].type = "function"

\* C4: every top-level FunctionDef is registered in the global scope before any
\* function body is visited, so a Call to a function defined anywhere in the
\* Program records no error, provided no variable or parameter of an open scope
\* shadows the callee.
C4_ForwardCalls ==
    /\ []((pc = "analyze" /\ Len(declared) >= 2) => AllRegistered)
    /\ [][(/\ last'.type = "Call"
           /\ last'.name \in NamesOf(ast.body)
           /\ \A i \in 2..Len(declared) : last'.name \notin declared[i]) =>
              errors' = errors]_vars

\* the first of two functions has called the second, not yet visited, without error
C4_Witness ==
    /\ pc = "analyze"
    /\ last.type = "Call"
    /\ errors = <<>>
    /\ Len(ast.body) = 2
    /\ ast.body[1].name # ast.body[2].name
    /\ last.name = ast.body[2].name
    /\ \E i \in 1..Len(agenda) : agenda[i] = ast.body[2]

\* C5: a name declared inside the consequent or the alternate of an If, or the
\* body of a While, and in no enclosing scope, is not visible after the construct
\* (nor, declared in the consequent, in the alternate): no mapping of the stack
\* holds it, and a use of it records an undeclared-variable error.
C5_BranchNamesNotVisible ==
    /\ [](\A n \in hidden : \A i \in 1..Len(scopes) : n \notin DOMAIN scopes[i])
    /\ [][(last'.type \in {"Identifier", "Assignment"} /\ last'.name \in hidden) =>
              errors' = Append(errors, UndeclaredMsg(last'))]_vars

\* the alternate of an If has used a name declared only in the closed consequent
C5_Witness ==
    /\ pc = "analyze"
    /\ last.type = "Identifier"
    /\ hidden = {last.name}
    /\ errors = <<UseUndeclared(last.name)>>
    /\ agenda # <<>>
    /\ Head(agenda) = ExitScope("If.alternate")

\* C6: the driver writes the AST artifact and generates and executes code only
\* after the analysis has completed with an empty error list: in a run whose
\* analysis recorded an error nothing is written, generated or executed.
C6_NothingProducedOnErrors ==
    /\ pc \in {"write_ast", "generate", "exec"} => (agenda = <<>> /\ errors = <<>>)
    /\ produced # {} => errors = <<>>
    /\ pc \in {"parsed", "analyze"} => produced = {}

\* a run has ended at the analysis, which recorded an error, having produced nothing
C6_Witness ==
    /\ pc = "idle"
    /\ last.type = "analyze"
    /\ errors # <<>>
    /\ produced = {}

\* C11: every analysis starts with a table of one empty global mapping and an
\* empty error list, whatever the analyzer of the test_code call before it
\* held; and while an analysis runs, the names its table holds are exactly those
\* the program under analysis has declared in the scopes now open, so lookup
\* finds no name that only an earlier program declared.
C11_FreshAnalyzerPerCompilation ==
    /\ [][last'.type = "SemanticAnalyzer" =>
              scopes' = <<EmptyDict>> /\ errors' = <<>>]_vars
    /\ [](pc = "analyze" =>
            /\ Len(scopes) = Len(declared)
            /\ \A i \in 1..Len(scopes) : DOMAIN scopes[i] = declared[i]
            /\ \A n \in Names :
                  Truthy(lookup(scopes, n)) <=> \E i \in 1..Len(declared) : n \in declared[i])

\* an analysis has just started with a fresh table and error list, after a
\* test_code call whose analyzer had recorded errors and held a name that the
\* program now under analysis does not define
C11_Witness ==
    /\ pc = "analyze"
    /\ last.type = "SemanticAnalyzer"
    /\ last.failed
    /\ \E n \in last.dropped : \A i \in 1..Len(ast.body) : ast.body[i].name # n
    /\ scopes = <<EmptyDict>>
    /\ errors = <<>>

\* the enter_scope (exit_scope) calls that the visits now on the call stack
\* have still to make
Pending(marker) == Cardinality({i \in 1..Len(agenda) : agenda[i].type = marker})

\* C12: while an analysis runs, the depth of the scope stack is one plus the
\* pops still to come less the pushes still to come in the visits on the call
\* stack; a visit neither adds nor removes pending calls of its callers, so
\* when it returns the depth is what it was when it was called. Once analyze
\* has returned the stack holds the global mapping alone, errors or not.
C12_PushesAndPopsBalanced ==
    /\ pc = "analyze" => Len(scopes) + Pending("enter_scope") = 1 + Pending("exit_scope")
    /\ last.type = "analyze" => Len(scopes) = 1

\* analyze has returned with errors, after a function scope and a branch scope
\* that held a declaration were opened and closed; the stack is back to depth 1
C12_Witness ==
    /\ last.type = "analyze"
    /\ errors # <<>>
    /\ hidden # {}
    /\ Len(scopes) = 1

HasRepeat(nodes) == \E i, j \in 1..Len(nodes) : i < j /\ nodes[i].name = nodes[j].name

\* C7: whenever the analyzer registers a name (a top-level function, a parameter
\* or a variable) into a scope mapping that already holds that name, it records
\* an error.
C7_EveryRedeclarationIsAnError ==
    [][(\/ last'.type = "Program" /\ HasRepeat(ast.body)
        \/ last'.type = "FunctionDef" /\ HasRepeat(last'.params)
        \/ last'.type = "VarDecl" /\ last'.name \in declared[Len(declared)]) =>
           Len(errors') > Len(errors)]_vars

----------------------------------------------------------------------------
(* Claims about generate *)

\* the positions of text where a line starts
LineStarts(text) == {1} \cup {i + 1 : i \in {j \in 1..(Len(text) - 1) : text[j] = NL}}

\* C8: a function whose body holds no statement that renders text (no statement
\* at all, or only empty statements) is generated as its def line followed by
\* exactly one placeholder line, "    pass".
C8_EmptyBodyEmitsPass ==
    (pc = "returned" /\ \A i \in 1..Len(node.body) : node.body[i] = None) =>
        /\ Cardinality(LineStarts(code)) = 2
        /\ Len(code) >= 3
        /\ SubSeq(code, Len(code) - 2, Len(code)) = <<IND, "pass", NL>>

\* C9: the text of a function with statements is made of complete,
\* newline-terminated lines, and every line after the def line is indented at
\* least one level deeper than it.
C9_BodyLinesCompleteAndIndented ==
    (pc = "returned" /\ node.body # <<>>) =>
        /\ code[Len(code)] = NL
        /\ \A p \in LineStarts(code) \ {1} : code[p] = IND

====
